---- MODULE Spec2Model ----
(***************************************************************************)
(* Model of src/src/main.rs: a swarm of three robots (one Explorer, two    *)
(* Miners) on a shared grid.  Each robot runs in its own thread; a tick    *)
(* locks the map, then the robot list, runs Robot::perform_task on a clone *)
(* of the robot, writes the clone back and sends a copy of the map to the  *)
(* UI thread.                                                              *)
(*                                                                         *)
(* Robot::perform_task is modelled once, as a step function PTStep over a  *)
(* frame (the robot clone, the map data, the reported set, the log and the *)
(* locks the thread holds).  A step ends at every lock acquisition, so the *)
(* same function serves two specifications:                                *)
(*   Spec        one action per tick (perform_task run to its return),     *)
(*               for the claims about what a tick does to the world;       *)
(*   SpecThreads one action per step of every thread (the robot threads,   *)
(*               the UI thread, the Ctrl-C handler), for the claims about  *)
(*               locks and interleavings.                                  *)
(***************************************************************************)
EXTENDS Integers, Sequences, FiniteSets, TLC

VARIABLES
    map,                 \* Map behind map_shared: [width, height, data, base_x, base_y]
    robots,              \* Vec<Robot> behind robots_shared, indexed 0..2
    reported_resources,  \* HashSet<(usize, usize)> behind its mutex
    logs,                \* Vec<String> behind its mutex
    hashKey,             \* the HashSet's hashing key: fixes its iteration order
    running,             \* AtomicBool cleared by the Ctrl-C handler
    pc,                  \* position of each robot thread in its loop
    task,                \* each robot thread's locals inside perform_task
    held,                \* the mutexes each thread holds, in acquisition order
    chan,                \* mpsc channel: map copies sent and not yet received
    ui,                  \* the UI thread: position, received map, rendered view
    created,             \* history: the map as Map::new returned it
    discovery,           \* history: outstanding coordinates in insertion order
    credits,             \* history: inventory increments per coordinate
    sent,                \* history, kept by SpecView only: the robot list as it
                         \* was when each map was sent
    appended             \* history, kept by SpecLog only: every line given to
                         \* log_event, in the order of the pushes

vars == << map, robots, reported_resources, logs, hashKey, running, pc, task,
           held, chan, ui, created, discovery, credits, sent, appended >>

worldVars == << map, robots, reported_resources, logs, hashKey, created,
               discovery, credits >>
threadVars == << running, pc, task, held, chan, ui, sent, appended >>

----------------------------------------------------------------------------
(* The program's two constants, scaled down to keep the state space small:  *)
(* the source has MAX_INVENTORY = 5 and MAX_LOGS = 10.                      *)

MAX_INVENTORY == 2
MAX_LOGS == 2

(* Bounds of the model *)

\* number of hashing keys the HashSet may have been created with
HashKeys == 2
\* number of calls of log_event SpecLog follows
MaxAppends == 4
\* the channel is unbounded: the model follows the schedules in which no more
\* than MaxQueue maps are queued (a tick starts when there is room for its map)
MaxQueue == 1

Explorer == "Explorer"
Miner == "Miner"

None == << >>
Some(v) == << v >>
IsNone(o) == o = << >>
IsSome(o) == o # << >>
Unwrap(o) == o[1]

Agents == 0 .. 2
UI == 3
Threads == 0 .. 3

----------------------------------------------------------------------------
(* Terrain.  Map::new draws obstacles from Perlin noise and resources at   *)
(* random; the layouts below are the outcomes the model starts from.  A    *)
(* layout is a tuple of rows, row y (from 0) being element y + 1.          *)

\* 3 x 2: three resources, an obstacle right of the base and one between
\* the two resources of the top row
TerrainBlocked ==
    << << "M", "#", "E" >>,
       << "E", "S", "#" >> >>

\* 3 x 2: three resources, no obstacle
TerrainOpen ==
    << << "M", ".", "E" >>,
       << "E", "S", "." >> >>

\* 3 x 1, two resources
TerrainRow ==
    << << "M", "S", "E" >> >>

\* 2 x 1, one resource
TerrainPair ==
    << << "M", "S" >> >>

Terrains == { TerrainBlocked, TerrainOpen }
ThreadTerrains == { TerrainRow }
ViewTerrains == { TerrainPair }

\* Map::new on a drawn layout: the base is the centre cell
MapNew(t) ==
    LET height == Len(t)
        width == Len(t[1])
    IN  [ width  |-> width,
          height |-> height,
          data   |-> [ y \in 0 .. height - 1 |->
                         [ x \in 0 .. width - 1 |-> t[y + 1][x + 1] ] ],
          base_x |-> width \div 2,
          base_y |-> height \div 2 ]

\* Robot::new
RobotNew(id, x, y, robot_type) ==
    [ id |-> id, x |-> x, y |-> y, robot_type |-> robot_type,
      inventory |-> 0, target |-> None, paused |-> FALSE ]

IsResource(tile) == tile = "M" \/ tile = "E"

\* the tile at coordinate c = (x, y)
CellOf(m, c) == m.data[c[2]][c[1]]

----------------------------------------------------------------------------
(* log_event: push, then drop the oldest line when over MAX_LOGS.  The     *)
(* text of a line has no effect on the simulation and is not modelled:     *)
(* perform_task pushes the same token for every line.                      *)

\* mutant: the newest line removed instead of the oldest
LogPushPop(l, msg) ==
    LET pushed == Append(l, msg)
    IN  IF Len(pushed) > MAX_LOGS THEN SubSeq(pushed, 1, Len(pushed) - 1) ELSE pushed

LogPush(l, msg) ==
    LET pushed == Append(l, msg)
    IN  IF Len(pushed) > MAX_LOGS THEN Tail(pushed) ELSE pushed

----------------------------------------------------------------------------
(* Iteration order of the HashSet: the elements by bucket, the bucket of a *)
(* coordinate being a keyed hash of it.  The key is drawn when the set is  *)
(* created and the order is otherwise arbitrary.                           *)

HashPrime == 11

Bucket(c, key) == ((3 * key + 1) * (c[2] * 3 + c[1] + 1)) % HashPrime

RECURSIVE IterOrder(_, _)
IterOrder(set, key) ==
    IF set = {} THEN << >>
    ELSE LET first == CHOOSE c \in set :
                          \A o \in set : Bucket(c, key) <= Bucket(o, key)
         IN  << first >> \o IterOrder(set \ { first }, key)

----------------------------------------------------------------------------
(* Movement *)

Directions == << << -1, 0 >>, << 1, 0 >>, << 0, -1 >>, << 0, 1 >> >>
Dirs == 1 .. Len(Directions)

\* mutant: the step taken without looking at the cell
MoveRandomlyAnywhere(r, m, d) ==
    LET dx == Directions[d][1]
        dy == Directions[d][2]
        new_x == ((r.x + dx) + m.width) % m.width
        new_y == ((r.y + dy) + m.height) % m.height
    IN  [ r EXCEPT !.x = new_x, !.y = new_y ]

\* Robot::move_randomly, d being the index rng.gen_range draws
move_randomly(r, m, d) ==
    LET dx == Directions[d][1]
        dy == Directions[d][2]
        new_x == ((r.x + dx) + m.width) % m.width
        new_y == ((r.y + dy) + m.height) % m.height
    IN  IF m.data[new_y][new_x] # "#"
        THEN [ r EXCEPT !.x = new_x, !.y = new_y ]
        ELSE r

\* mutant: one axis at a time, x before y
MoveTowardsXFirst(r, target, m, d) ==
    LET target_x == target[1]
        target_y == target[2]
        new_x == IF r.x < target_x THEN r.x + 1
                 ELSE IF r.x > target_x THEN r.x - 1 ELSE r.x
        new_y == IF new_x # r.x THEN r.y
                 ELSE IF r.y < target_y THEN r.y + 1
                 ELSE IF r.y > target_y THEN r.y - 1 ELSE r.y
    IN  IF m.data[new_y][new_x] # "#"
        THEN [ r EXCEPT !.x = new_x, !.y = new_y ]
        ELSE move_randomly(r, m, d)

\* Robot::move_towards, d being the draw of the fallback move_randomly
move_towards(r, target, m, d) ==
    LET target_x == target[1]
        target_y == target[2]
        new_x == IF r.x < target_x THEN r.x + 1
                 ELSE IF r.x > target_x THEN r.x - 1 ELSE r.x
        new_y == IF r.y < target_y THEN r.y + 1
                 ELSE IF r.y > target_y THEN r.y - 1 ELSE r.y
    IN  IF m.data[new_y][new_x] # "#"
        THEN [ r EXCEPT !.x = new_x, !.y = new_y ]
        ELSE move_randomly(r, m, d)

\* the shift of robot 2 off the base while it waits
Nudge(r, m) ==
    IF r.x = m.base_x /\ r.y = m.base_y
    THEN IF m.base_x + 1 < m.width THEN [ r EXCEPT !.x = m.base_x + 1 ]
         ELSE IF m.base_x > 0 THEN [ r EXCEPT !.x = m.base_x - 1 ]
         ELSE r
    ELSE r

----------------------------------------------------------------------------
(* Robot::perform_task as a step function.  A frame f holds                *)
(*   pc      the position inside perform_task                              *)
(*   after   where log_event returns to                                    *)
(*   robot   the clone perform_task works on                               *)
(*   m       the map (its data is mutated in place)                        *)
(*   rep     reported_resources                                            *)
(*   logs    the log                                                       *)
(*   held    the mutexes the thread holds, in acquisition order            *)
(*   disc, cred   the history variables                                    *)

\* Mutex::lock succeeding
Acquire(f, lock, next) ==
    [ f EXCEPT !.held = Append(@, lock), !.pc = next ]

\* mutant: the registry guard outlives its block
ReleaseKeepsRegistry(h, lock) ==
    IF lock = "rep" THEN h ELSE SelectSeq(h, LAMBDA l : l # lock)

\* a MutexGuard going out of scope
Release(h, lock) == SelectSeq(h, LAMBDA l : l # lock)

\* a call of log_event: its first statement locks the log
CallLog(f, after) == [ f EXCEPT !.pc = "log_lock", !.after = after ]

\* the mutex the step at f.pc locks, "none" when it locks nothing
Wants(f) ==
    CASE f.pc \in { "ex_lock_rep", "m2_lock_rep", "mt_lock_rep", "m_release" } -> "rep"
      [] f.pc = "log_lock" -> "logs"
      [] OTHER -> "none"

\* rep.iter().next() of a robot other than 2, rep.iter().nth(1) of robot 2
PickTarget(id, rep, key) ==
    LET order == IterOrder(rep, key)
    IN  IF id = 2
        THEN IF Cardinality(rep) >= 2 THEN Some(order[2]) ELSE None
        ELSE IF Len(order) >= 1 THEN Some(order[1]) ELSE None

\* rep.insert
RepInsert(rep, c) == rep \cup { c }

\* mutant: the claim never released
RepRemoveNothing(rep, c) == rep

\* rep.remove
RepRemove(rep, c) == rep \ { c }

\* mutant: the whole row of the reached cell emptied
DepleteRow(data, x, y) == [ data EXCEPT ![y] = [ c \in DOMAIN @ |-> "." ] ]

\* the cell a Miner empties when it collects
Deplete(data, x, y) == [ data EXCEPT ![y][x] = "." ]

\* mutant: the inventory raised by two
CollectTwo(r) == [ r EXCEPT !.inventory = @ + 2 ]

\* self.inventory += 1
Collect(r) == [ r EXCEPT !.inventory = @ + 1 ]

\* mutant: one unit unloaded instead of the whole inventory
UnloadOne(r) == [ r EXCEPT !.inventory = @ - 1 ]

\* self.inventory = 0 at the base
Unload(r) == [ r EXCEPT !.inventory = 0 ]

\* mutant: the quota test off by one
MustWaitForOne(r, rep) == Cardinality(rep) < 1 /\ IsNone(r.target)

\* the quota test of robot 2
MustWait(r, rep) == Cardinality(rep) < 2 /\ IsNone(r.target)

\* mutant: the inventory test left out
HasRoomAlways(r) == TRUE

\* if self.inventory < MAX_INVENTORY
HasRoom(r) == r.inventory < MAX_INVENTORY

\* mutant: the reached cell collected without looking at it
CanCollectAlways(m, r) == TRUE

\* the test of the cell a Miner has reached
CanCollect(m, r) == IsResource(m.data[r.y][r.x])

\* self.x == map.base_x && self.y == map.base_y
AtBase(r, m) == r.x = m.base_x /\ r.y = m.base_y

\* mutant: the robot list locked before the map
TickLocksSwapped == << "robots", "map" >>

\* the guards a tick takes, in the order it takes them
TickLocks == << "map", "robots" >>

PTStep(f, key, d) ==
    LET r == f.robot
    IN
    CASE f.pc = "start" ->
           IF r.robot_type = Explorer
           THEN IF IsResource(f.m.data[r.y][r.x])
                THEN [ f EXCEPT !.pc = "ex_lock_rep" ]
                ELSE [ f EXCEPT !.pc = "ex_move" ]
           ELSE IF HasRoom(r)
                THEN IF r.id = 2
                     THEN [ f EXCEPT !.pc = "m2_lock_rep" ]
                     ELSE [ f EXCEPT !.pc = "m_target" ]
                ELSE [ f EXCEPT !.pc = "m_return" ]
      [] f.pc = "ex_lock_rep" -> Acquire(f, "rep", "ex_insert")
      [] f.pc = "ex_insert" ->
           CallLog([ f EXCEPT
                       !.rep = RepInsert(@, << r.x, r.y >>),
                       !.disc = IF << r.x, r.y >> \in f.rep THEN @
                                ELSE Append(@, << r.x, r.y >>),
                       !.held = Release(@, "rep") ],
                   "ex_move")
      [] f.pc = "ex_move" ->
           [ f EXCEPT !.robot = move_randomly(r, f.m, d), !.pc = "ret" ]
      [] f.pc = "m2_lock_rep" -> Acquire(f, "rep", "m2_check")
      [] f.pc = "m2_check" ->
           IF MustWait(r, f.rep)
           THEN IF ~ r.paused
                THEN CallLog([ f EXCEPT !.robot = Nudge(r, f.m) ], "m2_paused")
                ELSE [ f EXCEPT !.robot = Nudge(r, f.m),
                                !.held = Release(@, "rep"),
                                !.pc = "ret" ]
           ELSE [ f EXCEPT !.robot.paused = FALSE,
                           !.held = Release(@, "rep"),
                           !.pc = "m_target" ]
      [] f.pc = "m2_paused" ->
           [ f EXCEPT !.robot.paused = TRUE,
                      !.held = Release(@, "rep"),
                      !.pc = "ret" ]
      [] f.pc = "m_target" ->
           IF IsNone(r.target)
           THEN [ f EXCEPT !.pc = "mt_lock_rep" ]
           ELSE [ f EXCEPT !.pc = "m_go" ]
      [] f.pc = "mt_lock_rep" -> Acquire(f, "rep", "mt_pick")
      [] f.pc = "mt_pick" ->
           LET t == PickTarget(r.id, f.rep, key)
           IN  IF IsSome(t)
               THEN CallLog([ f EXCEPT !.robot.target = t ], "mt_unlock")
               ELSE [ f EXCEPT !.pc = "mt_unlock" ]
      [] f.pc = "mt_unlock" ->
           [ f EXCEPT !.held = Release(@, "rep"), !.pc = "m_go" ]
      [] f.pc = "m_go" ->
           IF IsSome(r.target)
           THEN LET target == Unwrap(r.target)
                    moved == move_towards(r, target, f.m, d)
                IN  IF moved.x = target[1] /\ moved.y = target[2]
                    THEN IF CanCollect(f.m, moved)
                         THEN CallLog([ f EXCEPT
                                  !.m.data = Deplete(@, moved.x, moved.y),
                                  !.robot = Collect(moved),
                                  !.cred = [ @ EXCEPT ![target] = @ + 1 ] ],
                                "m_release")
                         ELSE [ f EXCEPT !.robot = moved, !.pc = "m_release" ]
                    ELSE [ f EXCEPT !.robot = moved, !.pc = "ret" ]
           ELSE [ f EXCEPT !.robot = move_randomly(r, f.m, d), !.pc = "ret" ]
      [] f.pc = "m_release" -> Acquire(f, "rep", "m_remove")
      [] f.pc = "m_remove" ->
           [ f EXCEPT !.rep = RepRemove(@, Unwrap(r.target)),
                      !.disc = SelectSeq(@, LAMBDA c : c # Unwrap(r.target)),
                      !.robot.target = None,
                      !.held = Release(@, "rep"),
                      !.pc = "ret" ]
      [] f.pc = "m_return" ->
           LET moved == move_towards(r, << f.m.base_x, f.m.base_y >>, f.m, d)
           IN  IF AtBase(moved, f.m)
               THEN CallLog([ f EXCEPT !.robot = moved ], "m_unload")
               ELSE [ f EXCEPT !.robot = moved, !.pc = "ret" ]
      [] f.pc = "m_unload" ->
           [ f EXCEPT !.robot = Unload(r), !.pc = "ret" ]
      [] f.pc = "log_lock" -> Acquire(f, "logs", "log_push")
      [] f.pc = "log_push" ->
           [ f EXCEPT !.logs = LogPush(@, "line"),
                      !.held = Release(@, "logs"),
                      !.pc = f.after,
                      !.after = "" ]
      [] OTHER -> f

\* a step that locks a mutex the thread already holds never returns
SelfBlocked(f) ==
    Wants(f) # "none" /\ \E k \in 1 .. Len(f.held) : f.held[k] = Wants(f)

\* perform_task from f to its return, with no other thread in the way
RECURSIVE Run(_, _, _)
Run(f, key, d) ==
    IF f.pc = "ret" \/ SelfBlocked(f) THEN f ELSE Run(PTStep(f, key, d), key, d)

Frame(r, m, rep, l, h, disc, cred, at, after) ==
    [ pc |-> at, after |-> after, robot |-> r, m |-> m, rep |-> rep,
      logs |-> l, held |-> h, disc |-> disc, cred |-> cred ]

----------------------------------------------------------------------------
(* Initial state: main up to the spawning of the threads *)

Coords(m) == { << x, y >> : x \in 0 .. m.width - 1, y \in 0 .. m.height - 1 }

\* the roster main builds: every robot starts on the base
Roster(m) ==
    [ i \in Agents |->
        RobotNew(i, m.base_x, m.base_y, IF i = 0 THEN Explorer ELSE Miner) ]

IdleTask == [ pc |-> "idle", after |-> "", robot |-> None ]

InitWorld(terrains, keys) ==
    \E t \in terrains, key \in 0 .. keys - 1 :
        /\ map = MapNew(t)
        /\ robots = Roster(MapNew(t))
        /\ reported_resources = {}
        /\ logs = << >>
        /\ hashKey = key
        /\ created = MapNew(t)
        /\ discovery = << >>
        /\ credits = [ c \in Coords(MapNew(t)) |-> 0 ]

\* the history of sent maps: None where it is not kept
Recorded(h) == IF IsNone(sent) THEN sent ELSE h

InitThreads(record) ==
    /\ running = TRUE
    /\ pc = [ i \in Agents |-> "loop" ]
    /\ task = [ i \in Agents |-> IdleTask ]
    /\ held = [ t \in Threads |-> << >> ]
    /\ chan = << >>
    /\ ui = [ pc |-> "loop", map |-> None, view |-> None ]
    /\ sent = IF record THEN [ queued |-> << >>, received |-> None ] ELSE None
    /\ appended = << >>

Init == InitWorld(Terrains, HashKeys) /\ InitThreads(FALSE)

----------------------------------------------------------------------------
(* Spec: one action per tick.  The body of the robot thread's loop between *)
(* taking and dropping the two guards: clone robots[i], perform_task,      *)
(* write the clone back.                                                   *)

\* perform_task on a clone of robots[i], d being the draw of its random step
TickResult(i, d) ==
    Run(Frame(robots[i], map, reported_resources, logs, TickLocks, discovery,
              credits, "start", ""),
        hashKey, d)

Tick(i) ==
    \E d \in Dirs :
        \E f \in { TickResult(i, d) } :
            /\ f.pc = "ret"
            /\ robots' = [ robots EXCEPT ![i] = f.robot ]
            /\ map' = f.m
            /\ reported_resources' = f.rep
            /\ logs' = f.logs
            /\ discovery' = f.disc
            /\ credits' = f.cred
            /\ UNCHANGED << hashKey, created, threadVars >>

Next == \E i \in Agents : Tick(i)

Spec == Init /\ [][Next]_vars

----------------------------------------------------------------------------
(* SpecThreads: one action per step of every thread *)

Holds(t, lock) == \E k \in 1 .. Len(held[t]) : held[t][k] = lock

\* Mutex::lock returns only when no thread holds the mutex
LockFree(lock) == \A t \in Threads : ~ Holds(t, lock)

\* mutant: the flag is not looked at
LoopForever(i) ==
    /\ pc[i] = "loop"
    /\ pc' = [ pc EXCEPT ![i] = "lock_map" ]
    /\ UNCHANGED << worldVars, running, task, held, chan, ui, sent, appended >>

\* while running_clone.load(..)
Loop(i) ==
    /\ pc[i] = "loop"
    /\ pc' = [ pc EXCEPT ![i] = IF running THEN "lock_map" ELSE "done" ]
    /\ UNCHANGED << worldVars, running, task, held, chan, ui, sent, appended >>

\* map_shared.lock(); the thread has slept until the queue has room
LockMap(i) ==
    /\ pc[i] = "lock_map"
    /\ Len(chan) < MaxQueue
    /\ LockFree(TickLocks[1])
    /\ held' = [ held EXCEPT ![i] = Append(@, TickLocks[1]) ]
    /\ pc' = [ pc EXCEPT ![i] = "lock_robots" ]
    /\ UNCHANGED << worldVars, running, task, chan, ui, sent, appended >>

\* mutant: the map guard dropped as soon as the robot list is locked
LockRobotsDropMap(i) ==
    /\ pc[i] = "lock_robots"
    /\ LockFree(TickLocks[2])
    /\ held' = [ held EXCEPT ![i] = << TickLocks[2] >> ]
    /\ task' = [ task EXCEPT ![i] =
                   [ pc |-> "start", after |-> "", robot |-> Some(robots[i]) ] ]
    /\ pc' = [ pc EXCEPT ![i] = "task" ]
    /\ UNCHANGED << worldVars, running, chan, ui, sent, appended >>

\* robots_shared_clone.lock(), then robots[i].clone()
LockRobots(i) ==
    /\ pc[i] = "lock_robots"
    /\ LockFree(TickLocks[2])
    /\ held' = [ held EXCEPT ![i] = Append(@, TickLocks[2]) ]
    /\ task' = [ task EXCEPT ![i] =
                   [ pc |-> "start", after |-> "", robot |-> Some(robots[i]) ] ]
    /\ pc' = [ pc EXCEPT ![i] = "task" ]
    /\ UNCHANGED << worldVars, running, chan, ui, sent, appended >>

\* one step of robot.perform_task(..)
TaskStep(i) ==
    /\ pc[i] = "task"
    /\ task[i].pc # "ret"
    /\ \E d \in Dirs :
        \E f \in { Frame(Unwrap(task[i].robot), map, reported_resources, logs,
                         held[i], discovery, credits,
                         task[i].pc, task[i].after) } :
            /\ Wants(f) # "none" => LockFree(Wants(f))
            /\ \E g \in { PTStep(f, hashKey, d) } :
                /\ task' = [ task EXCEPT ![i] =
                               [ pc |-> g.pc, after |-> g.after,
                                 robot |-> Some(g.robot) ] ]
                /\ map' = g.m
                /\ reported_resources' = g.rep
                /\ logs' = g.logs
                /\ held' = [ held EXCEPT ![i] = g.held ]
                /\ discovery' = g.disc
                /\ credits' = g.cred
    /\ UNCHANGED << robots, hashKey, created, running, pc, chan, ui, sent, appended >>

\* mutant: the clone written back one slot further
WriteBackShifted(i) ==
    /\ pc[i] = "task"
    /\ task[i].pc = "ret"
    /\ robots' = [ robots EXCEPT ![(i + 1) % 3] = Unwrap(task[i].robot) ]
    /\ task' = [ task EXCEPT ![i] = IdleTask ]
    /\ pc' = [ pc EXCEPT ![i] = "send" ]
    /\ UNCHANGED << map, reported_resources, logs, hashKey, created, discovery,
                    credits, running, held, chan, ui, sent, appended >>

\* robots[i] = robot.clone()
WriteBack(i) ==
    /\ pc[i] = "task"
    /\ task[i].pc = "ret"
    /\ robots' = [ robots EXCEPT ![i] = Unwrap(task[i].robot) ]
    /\ task' = [ task EXCEPT ![i] = IdleTask ]
    /\ pc' = [ pc EXCEPT ![i] = "send" ]
    /\ UNCHANGED << map, reported_resources, logs, hashKey, created, discovery,
                    credits, running, held, chan, ui, sent, appended >>

\* Map::clone_map: what tx.send puts on the channel
clone_map(m) ==
    [ width |-> m.width, height |-> m.height, data |-> m.data,
      base_x |-> m.base_x, base_y |-> m.base_y ]

\* tx_clone.send(map.clone_map()): queued, or an error, printed and ignored,
\* once the receiver is dropped
Send(i) ==
    /\ pc[i] = "send"
    /\ IF ui.pc = "done"
       THEN /\ chan' = chan
            /\ sent' = sent
       ELSE /\ chan' = Append(chan, clone_map(map))
            /\ sent' = Recorded([ queued |-> Append(sent.queued, robots),
                                  received |-> sent.received ])
    /\ pc' = [ pc EXCEPT ![i] = "unlock" ]
    /\ UNCHANGED << worldVars, running, task, held, ui, appended >>

\* the end of the block drops both guards; the thread then sleeps
Unlock(i) ==
    /\ pc[i] = "unlock"
    /\ held' = [ held EXCEPT ![i] = << >> ]
    /\ pc' = [ pc EXCEPT ![i] = "loop" ]
    /\ UNCHANGED << worldVars, running, task, chan, ui, sent, appended >>

\* render_ui: while running.load(..); on exit the receiver is dropped
UiLoop ==
    /\ ui.pc = "loop"
    /\ ui' = [ ui EXCEPT !.pc = IF running THEN "recv" ELSE "done" ]
    /\ chan' = IF running THEN chan ELSE << >>
    /\ sent' = IF running THEN sent
               ELSE Recorded([ queued |-> << >>, received |-> sent.received ])
    /\ UNCHANGED << worldVars, running, pc, task, held, appended >>

\* rx.recv_timeout(100 ms): a map, or a timeout when none is queued
UiRecv ==
    /\ ui.pc = "recv"
    /\ IF chan # << >>
       THEN /\ ui' = [ ui EXCEPT !.pc = "lock_robots", !.map = Some(Head(chan)) ]
            /\ chan' = Tail(chan)
            /\ sent' = Recorded([ queued |-> Tail(sent.queued),
                                  received |-> Some(Head(sent.queued)) ])
       ELSE /\ ui' = [ ui EXCEPT !.pc = "loop" ]
            /\ chan' = chan
            /\ sent' = sent
    /\ UNCHANGED << worldVars, running, pc, task, held, appended >>

\* robots.lock()
UiLockRobots ==
    /\ ui.pc = "lock_robots"
    /\ LockFree("robots")
    /\ held' = [ held EXCEPT ![UI] = Append(@, "robots") ]
    /\ ui' = [ ui EXCEPT !.pc = "build" ]
    /\ UNCHANGED << worldVars, running, pc, task, chan, sent, appended >>

\* sim_lines: the received map overlaid with the robots behind the guard
UiBuild ==
    /\ ui.pc = "build"
    /\ ui' = [ ui EXCEPT !.pc = "lock_logs",
                         !.view = Some([ map |-> Unwrap(ui.map),
                                         robots |-> robots ]) ]
    /\ UNCHANGED << worldVars, running, pc, task, held, chan, sent, appended >>

\* logs.lock()
UiLockLogs ==
    /\ ui.pc = "lock_logs"
    /\ LockFree("logs")
    /\ held' = [ held EXCEPT ![UI] = Append(@, "logs") ]
    /\ ui' = [ ui EXCEPT !.pc = "read_logs" ]
    /\ UNCHANGED << worldVars, running, pc, task, chan, sent, appended >>

\* log_lines collected, the logs guard dropped
UiReadLogs ==
    /\ ui.pc = "read_logs"
    /\ held' = [ held EXCEPT ![UI] = Release(@, "logs") ]
    /\ ui' = [ ui EXCEPT !.pc = "draw" ]
    /\ UNCHANGED << worldVars, running, pc, task, chan, sent, appended >>

\* terminal.size()? and terminal.draw(..)?: drawn, or an I/O error that ends
\* render_ui; either way the robots guard is dropped
UiDraw ==
    /\ ui.pc = "draw"
    /\ held' = [ held EXCEPT ![UI] = << >> ]
    /\ \E ok \in BOOLEAN :
        /\ ui' = [ pc |-> IF ok THEN "loop" ELSE "done", map |-> None, view |-> None ]
        /\ chan' = IF ok THEN chan ELSE << >>
        /\ sent' = Recorded([ queued |-> IF ok THEN sent.queued ELSE << >>,
                              received |-> None ])
    /\ UNCHANGED << worldVars, running, pc, task, appended >>

\* the Ctrl-C handler
CtrlC ==
    /\ running
    /\ running' = FALSE
    /\ UNCHANGED << worldVars, pc, task, held, chan, ui, sent, appended >>

AgentStep(i) ==
    \/ Loop(i)
    \/ LockMap(i)
    \/ LockRobots(i)
    \/ TaskStep(i)
    \/ WriteBack(i)
    \/ Send(i)
    \/ Unlock(i)

UiStep ==
    \/ UiLoop
    \/ UiRecv
    \/ UiLockRobots
    \/ UiBuild
    \/ UiLockLogs
    \/ UiReadLogs
    \/ UiDraw

NextThreads == (\E i \in Agents : AgentStep(i)) \/ UiStep \/ CtrlC

InitT == InitWorld(ThreadTerrains, 1) /\ InitThreads(FALSE)

SpecThreads == InitT /\ [][NextThreads]_vars

\* C14: the robot list is the roster main built, every robot keeping its id
\* and its type, and a robot's record changes only when its own thread writes
\* the result of its tick back.
C14_OwnRecordOnly ==
    /\ [](/\ DOMAIN robots = Agents
          /\ \A i \in Agents :
                /\ robots[i].id = i
                /\ robots[i].robot_type = Roster(created)[i].robot_type)
    /\ [][\A j \in Agents :
            robots'[j] # robots[j] => pc[j] = "task" /\ pc'[j] = "send"]_vars

\* two robots have both left the state main created them in
C14_TwoRobotsChanged ==
    \E i, j \in Agents :
        /\ i # j
        /\ robots[i] # Roster(created)[i]
        /\ robots[j] # Roster(created)[j]

----------------------------------------------------------------------------
(* SpecView: the threads of SpecThreads on a smaller map, with the history *)
(* of what was sent along with each map.                                   *)

InitV == InitWorld(ViewTerrains, 1) /\ InitThreads(TRUE)

SpecView == InitV /\ [][NextThreads]_vars

----------------------------------------------------------------------------
(* Claims checked under Spec *)

Miners == { i \in Agents : robots[i].robot_type = Miner }

Passable(r) ==
    /\ r.x \in 0 .. map.width - 1
    /\ r.y \in 0 .. map.height - 1
    /\ map.data[r.y][r.x] # "#"

\* the number of coordinates an inventory was incremented for
Collected == Cardinality({ c \in DOMAIN credits : credits[c] > 0 })

\* C1: after every tick every robot stands inside the grid on a cell that is
\* not an obstacle.
C1_PositionsPassable == \A i \in Agents : Passable(robots[i])

\* C2: every inventory stays within 0 .. MAX_INVENTORY, the Explorer's stays
\* 0, and no tick raises an inventory by more than 1.
C2_InventoryBounds ==
    /\ [](\A i \in Agents :
            /\ robots[i].inventory \in 0 .. MAX_INVENTORY
            /\ robots[i].robot_type = Explorer => robots[i].inventory = 0)
    /\ [][\A i \in Agents : robots'[i].inventory <= robots[i].inventory + 1]_vars

\* a Miner is full while a reported resource is still to be collected
C2_FullMiner ==
    \E i \in Miners :
        robots[i].inventory = MAX_INVENTORY /\ reported_resources # {}

\* C3: an inventory decreases only in a tick of its robot that started with
\* the inventory at MAX_INVENTORY and ended on the base, and it then becomes 0.
C3_ResetOnlyFullAtBase ==
    [][\A i \in Agents :
         robots'[i].inventory < robots[i].inventory =>
            /\ robots[i].inventory = MAX_INVENTORY
            /\ robots'[i].inventory = 0
            /\ AtBase(robots'[i], map')
            /\ \A j \in Agents \ { i } : robots'[j] = robots[j]]_vars

\* a Miner stands on the base, unloaded, after more collections than the
\* inventories still hold
C3_Unloaded ==
    /\ \E i \in Miners : AtBase(robots[i], map) /\ robots[i].inventory = 0
    /\ Collected > robots[1].inventory + robots[2].inventory

\* C6: a Miner's newly acquired target is the earliest outstanding
\* coordinate in discovery order, the second earliest for robot 2.
C6_DiscoveryOrder ==
    [][\A i \in Miners :
         IsNone(robots[i].target) /\ IsSome(robots'[i].target) =>
            LET n == IF robots[i].id = 2 THEN 2 ELSE 1
            IN  /\ Len(discovery) >= n
                /\ Unwrap(robots'[i].target) = discovery[n]]_vars

C15_GridOnlyDepleted ==
    /\ [](/\ map.width = created.width /\ map.height = created.height
          /\ map.base_x = created.base_x /\ map.base_y = created.base_y
          /\ CellOf(map, << map.base_x, map.base_y >>) = "S")
    /\ [][/\ \A c \in Coords(map) :
               CellOf(map', c) # CellOf(map, c) =>
                  /\ IsResource(CellOf(map, c))
                  /\ CellOf(map', c) = "."
                  /\ c \in reported_resources
                  /\ \E i \in Miners :
                        /\ robots[i].target \in { None, Some(c) }
                        /\ IsNone(robots'[i].target)
                        /\ << robots'[i].x, robots'[i].y >> = c
                        /\ robots'[i].inventory = robots[i].inventory + 1
          /\ robots'[0] # robots[0] => map' = map]_vars

\* a Miner is back on the base after a resource cell was emptied
C15_DepletedAndHome ==
    /\ \E c \in Coords(map) : IsResource(CellOf(created, c)) /\ CellOf(map, c) = "."
    /\ \E i \in Miners : AtBase(robots[i], map) /\ robots[i].inventory > 0

\* robot i ends the step on c with no target, c being the target it held or a
\* coordinate it took from the registry in the same tick
Arrives(i, c) ==
    /\ << robots'[i].x, robots'[i].y >> = c
    /\ IsNone(robots'[i].target)
    /\ \/ robots[i].target = Some(c)
       \/ IsNone(robots[i].target) /\ c \in reported_resources \ reported_resources'

\* what the tick of Miner i does when it arrives at c
ArrivalEffect(i, c) ==
    /\ IF IsResource(CellOf(map, c))
       THEN /\ map' = [ map EXCEPT !.data = Deplete(@, c[1], c[2]) ]
            /\ robots'[i].inventory = robots[i].inventory + 1
       ELSE /\ map' = map
            /\ robots'[i].inventory = robots[i].inventory
    /\ reported_resources' = reported_resources \ { c }
    /\ IsNone(robots'[i].target)

\* the grid changes and the registry shrinks only when a Miner arrives
OnlyArrivalsTake ==
    map' # map \/ ~ (reported_resources \subseteq reported_resources') =>
        \E i \in Miners, c \in Coords(map) : HasRoom(robots[i]) /\ Arrives(i, c)

\* C17 as stated: a tick of a Miner with room either arrives at its target,
\* with the effect of an arrival, or leaves its target, its inventory, the
\* grid and the registry as they were.
C17_ArrivalOrNothing ==
    [][/\ OnlyArrivalsTake
       /\ \A i \in Miners :
            HasRoom(robots[i]) /\ robots'[i] # robots[i] =>
               IF \E c \in Coords(map) : Arrives(i, c)
               THEN ArrivalEffect(i, << robots'[i].x, robots'[i].y >>)
               ELSE /\ robots'[i].target = robots[i].target
                    /\ robots'[i].inventory = robots[i].inventory
                    /\ map' = map
                    /\ reported_resources' = reported_resources]_vars

\* C17 amended: as stated, except that a Miner that holds no target may take
\* one from the registry in a tick in which it does not arrive.
C17_ArrivalOrAcquisition ==
    [][/\ OnlyArrivalsTake
       /\ \A i \in Miners :
            HasRoom(robots[i]) /\ robots'[i] # robots[i] =>
               IF \E c \in Coords(map) : Arrives(i, c)
               THEN ArrivalEffect(i, << robots'[i].x, robots'[i].y >>)
               ELSE /\ \/ robots'[i].target = robots[i].target
                       \/ /\ IsNone(robots[i].target)
                          /\ IsSome(robots'[i].target)
                          /\ Unwrap(robots'[i].target) \in reported_resources
                    /\ robots'[i].inventory = robots[i].inventory
                    /\ map' = map
                    /\ reported_resources' = reported_resources]_vars

\* both Miners have arrived at the same coordinate: one collected it, the
\* other found the cell emptied
C17_CollectedAndFoundEmpty ==
    \E c \in Coords(map) :
        /\ CellOf(map, c) = "." /\ credits[c] = 1
        /\ c \notin reported_resources
        /\ \A i \in Miners :
              << robots[i].x, robots[i].y >> = c /\ IsNone(robots[i].target)
        /\ robots[1].inventory + robots[2].inventory = 1

\* the cell one step from p in direction d, the grid wrapping at its edges
Neighbour(p, d) ==
    << (p[1] + Directions[d][1] + map.width) % map.width,
       (p[2] + Directions[d][2] + map.height) % map.height >>

Position(r) == << r.x, r.y >>

\* C18: whatever direction is drawn, a tick of the Explorer leaves the
\* registry with the cell it started on added if that cell is a resource and
\* unchanged otherwise, leaves the grid alone, and ends with the Explorer on
\* the neighbour in the drawn direction when that cell is no obstacle and
\* where it started when it is.
C18_ReportThenOneStep ==
    \A d \in Dirs :
        LET f == TickResult(0, d)
            here == Position(robots[0])
            next == Neighbour(here, d)
        IN  /\ f.rep = IF IsResource(CellOf(map, here))
                       THEN reported_resources \cup { here }
                       ELSE reported_resources
            /\ f.m = map
            /\ Position(f.robot) = IF CellOf(map, next) # "#" THEN next ELSE here
            /\ f.robot = [ robots[0] EXCEPT !.x = f.robot.x, !.y = f.robot.y ]

\* the Explorer stands on a resource cell that is already reported, an
\* obstacle beside it
C18_OnReportedBesideObstacle ==
    LET here == Position(robots[0])
    IN  /\ IsResource(CellOf(map, here))
        /\ here \in reported_resources
        /\ \E d \in Dirs : CellOf(map, Neighbour(here, d)) = "#"

Sign(n) == IF n > 0 THEN 1 ELSE IF n < 0 THEN -1 ELSE 0

Abs(n) == IF n < 0 THEN -n ELSE n

\* the cell one step from p towards q on both axes at once
StepToward(p, q) == << p[1] + Sign(q[1] - p[1]), p[2] + Sign(q[2] - p[2]) >>

Chebyshev(p, q) ==
    IF Abs(q[1] - p[1]) > Abs(q[2] - p[2])
    THEN Abs(q[1] - p[1]) ELSE Abs(q[2] - p[2])

\* where the directed step of Miner i's next tick goes: the base when it is
\* full, else its target, else the target the tick acquires; None when the
\* tick makes no directed step
Destination(i) ==
    LET r == robots[i]
    IN  IF ~ HasRoom(r) THEN Some(<< map.base_x, map.base_y >>)
        ELSE IF IsSome(r.target) THEN r.target
        ELSE IF r.id = 2 /\ MustWait(r, reported_resources) THEN None
        ELSE PickTarget(r.id, reported_resources, hashKey)

\* the random step a Miner falls back on
FallsBack(i, d, f) ==
    LET here == Position(robots[i])
        next == Neighbour(here, d)
    IN  Position(f.robot) = IF CellOf(map, next) # "#" THEN next ELSE here

\* C19 as stated: the directed step of a Miner goes to the cell one step
\* nearer on both axes when that cell is no obstacle, and the Chebyshev
\* distance to the destination is then one less; when the cell is an obstacle
\* the Miner makes the random step of the drawn direction, or none.
C19_StepNearer ==
    \A i \in Miners : \A d \in Dirs :
        IsSome(Destination(i)) =>
            LET f == TickResult(i, d)
                here == Position(robots[i])
                dest == Unwrap(Destination(i))
                step == StepToward(here, dest)
            IN  IF CellOf(map, step) # "#"
                THEN /\ Position(f.robot) = step
                     /\ Chebyshev(step, dest) = Chebyshev(here, dest) - 1
                ELSE FallsBack(i, d, f)

\* C19 amended: as stated, except that a Miner already on its destination
\* stays there, at distance 0.
C19_StepNearerOrStay ==
    \A i \in Miners : \A d \in Dirs :
        IsSome(Destination(i)) =>
            LET f == TickResult(i, d)
                here == Position(robots[i])
                dest == Unwrap(Destination(i))
                step == StepToward(here, dest)
            IN  IF CellOf(map, step) # "#"
                THEN /\ Position(f.robot) = step
                     /\ Chebyshev(step, dest) =
                           IF here = dest THEN 0 ELSE Chebyshev(here, dest) - 1
                ELSE FallsBack(i, d, f)

\* a Miner holds a target two columns away, an obstacle on its directed step
C19_BlockedStep ==
    \E i \in Miners :
        /\ IsSome(robots[i].target) /\ HasRoom(robots[i])
        /\ Chebyshev(Position(robots[i]), Unwrap(robots[i].target)) = 2
        /\ CellOf(map, StepToward(Position(robots[i]), Unwrap(robots[i].target))) = "#"

\* C8: the two Miners never hold the same coordinate as target.
C8_DistinctTargets ==
    ~ (IsSome(robots[1].target) /\ robots[1].target = robots[2].target)

\* Between the quota test of robot 2 and its acquisition the registry lock is
\* released and taken again; under SpecThreads the registry still holds two
\* coordinates or more at every step in between.
QuotaStableAcrossLocks ==
    /\ pc[2] = "task"
    /\ task[2].pc \in { "m_target", "mt_lock_rep", "mt_pick" }
    /\ IsNone(Unwrap(task[2].robot).target)
    => Cardinality(reported_resources) >= 2

----------------------------------------------------------------------------
(* Claims checked under SpecThreads *)

\* no robot thread is inside perform_task
TickBoundary == \A i \in Agents : pc[i] # "task"

\* C4: an inventory is incremented exactly once for every cell that went
\* from a resource to empty, and for no other cell.
C4_CreditedOnce ==
    \A c \in DOMAIN credits :
        credits[c] = IF IsResource(CellOf(created, c)) /\ CellOf(map, c) = "."
                     THEN 1 ELSE 0

\* a Miner has reached its target after the cell was emptied and is about to
\* release the claim without having collected
C4_ArrivedAtEmptied ==
    \E i \in Agents :
        /\ pc[i] = "task"
        /\ task[i].pc = "m_release"
        /\ Unwrap(task[i].robot).inventory = robots[i].inventory
        /\ credits[Unwrap(Unwrap(task[i].robot).target)] = 1

\* C5: between ticks every coordinate in the registry is a resource cell, and
\* a coordinate enters the registry only while its cell is a resource.
C5_RegistryHoldsResources ==
    /\ [](TickBoundary =>
            \A c \in reported_resources : IsResource(CellOf(map, c)))
    /\ [][\A c \in reported_resources' \ reported_resources :
            IsResource(CellOf(map, c))]_vars

\* between ticks, after a collection, with a coordinate still outstanding
C5_CollectedAndOutstanding ==
    /\ TickBoundary
    /\ Collected >= 1
    /\ reported_resources # {}

Rank(lock) ==
    CASE lock = "map" -> 1
      [] lock = "robots" -> 2
      [] lock = "rep" -> 3
      [] lock = "logs" -> 4

Ordered == { "map", "robots", "rep" }

\* C9: a thread takes the map, the robot list and the registry in that order
\* only; a robot thread holds the map whenever it holds the robot list, and
\* both whenever it holds the registry.
C9_LockOrder ==
    \A t \in Threads :
        /\ \A j, k \in 1 .. Len(held[t]) :
              j < k /\ held[t][j] \in Ordered /\ held[t][k] \in Ordered =>
                  Rank(held[t][j]) < Rank(held[t][k])
        /\ t \in Agents =>
              /\ Holds(t, "robots") => Holds(t, "map")
              /\ Holds(t, "rep") => Holds(t, "map") /\ Holds(t, "robots")

\* a robot thread holds the three locks at once
C9_HoldsAllThree ==
    \E i \in Agents : Holds(i, "map") /\ Holds(i, "robots") /\ Holds(i, "rep")

\* between taking the map guard and dropping the two guards
InTick(i) == pc[i] \in { "lock_robots", "task", "send", "unlock" }

\* C10: at most one robot thread is inside its tick.
C10_TicksExclusive ==
    \A i, j \in Agents : i # j => ~ (InTick(i) /\ InTick(j))

\* one thread is in the middle of perform_task while another waits for the map
C10_OneInsideOneWaiting ==
    \E i, j \in Agents :
        /\ i # j
        /\ pc[i] = "task"
        /\ task[i].pc \notin { "start", "ret" }
        /\ pc[j] = "lock_map"

----------------------------------------------------------------------------
(* SpecFair: the threads on the smaller map, every thread scheduled again  *)
(* and again.  A thread that waits for a mutex gets it if the mutex is     *)
(* free again and again: a robot thread sleeps 100 ms after it drops its   *)
(* guards, and the UI thread waits in recv_timeout between two views.      *)
(* Nothing makes Ctrl-C happen.                                            *)

InitF == InitWorld(ViewTerrains, 1) /\ InitThreads(FALSE)

Fairness == (\A i \in Agents : SF_vars(AgentStep(i))) /\ SF_vars(UiStep)

SpecFair == InitF /\ [][NextThreads]_vars /\ Fairness

----------------------------------------------------------------------------
(* SpecLog: log_event alone, called by the three robot threads with lines  *)
(* that differ: the call, the lock of the log, then the push and the drop  *)
(* of the guard.                                                           *)

Lines == { "Ressource trouvee", "Robot 2 en pause", "Ressource collectee" }

\* log_event(logs, msg) is called
LogEventCall(i) ==
    /\ pc[i] = "loop"
    /\ Len(appended) + Cardinality({ j \in Agents : pc[j] = "log" }) < MaxAppends
    /\ \E msg \in Lines :
          task' = [ task EXCEPT ![i] = [ pc |-> "log_lock", msg |-> msg ] ]
    /\ pc' = [ pc EXCEPT ![i] = "log" ]
    /\ UNCHANGED << worldVars, running, held, chan, ui, sent, appended >>

\* logs.lock().unwrap()
LogEventLock(i) ==
    /\ pc[i] = "log"
    /\ task[i].pc = "log_lock"
    /\ LockFree("logs")
    /\ held' = [ held EXCEPT ![i] = Append(@, "logs") ]
    /\ task' = [ task EXCEPT ![i].pc = "log_push" ]
    /\ UNCHANGED << worldVars, running, pc, chan, ui, sent, appended >>

\* logs.push(..), logs.remove(0) when over MAX_LOGS, the guard dropped
LogEventPush(i) ==
    /\ pc[i] = "log"
    /\ task[i].pc = "log_push"
    /\ logs' = LogPush(logs, task[i].msg)
    /\ appended' = Append(appended, task[i].msg)
    /\ held' = [ held EXCEPT ![i] = Release(@, "logs") ]
    /\ task' = [ task EXCEPT ![i] = IdleTask ]
    /\ pc' = [ pc EXCEPT ![i] = "loop" ]
    /\ UNCHANGED << map, robots, reported_resources, hashKey, created, discovery,
                    credits, running, chan, ui, sent >>

NextLog ==
    \E i \in Agents : LogEventCall(i) \/ LogEventLock(i) \/ LogEventPush(i)

InitL == InitWorld(ViewTerrains, 1) /\ InitThreads(FALSE)

SpecLog == InitL /\ [][NextLog]_vars

----------------------------------------------------------------------------
(* Claims checked under SpecView *)

\* C11: every view the UI builds pairs the map it received with the robot
\* list as it was when that map was sent.
C11_ViewOfOneTick ==
    IsSome(ui.view) => Unwrap(ui.view).robots = Unwrap(sent.received)

\* C12: a publish made while the consumer is not waiting for a snapshot (it
\* still holds the one it received, or it is gone) is dropped: the queue is
\* left as it was and the robot thread goes on.
C12_DroppedUnlessAwaited ==
    [][\A i \in Agents :
         pc[i] = "send" /\ pc'[i] = "unlock" /\ (IsSome(ui.map) \/ ui.pc = "done")
            => chan' = chan]_vars

----------------------------------------------------------------------------
(* Claims checked under SpecFair *)

Stopped == (\A i \in Agents : pc[i] = "done") /\ ui.pc = "done"

\* the mutex thread t is about to lock, "none" when its next step locks none
WaitsFor(t) ==
    IF t = UI
    THEN CASE ui.pc = "lock_robots" -> "robots"
           [] ui.pc = "lock_logs" -> "logs"
           [] OTHER -> "none"
    ELSE CASE pc[t] = "lock_map" -> TickLocks[1]
           [] pc[t] = "lock_robots" -> TickLocks[2]
           [] pc[t] = "task" /\ task[t].pc # "ret" ->
                Wants(Frame(Unwrap(task[t].robot), map, reported_resources, logs,
                            held[t], discovery, credits, task[t].pc, task[t].after))
           [] OTHER -> "none"

\* no set of threads in which every thread waits for a mutex that a thread of
\* the set, possibly itself, holds
NoWaitCycle ==
    \A S \in (SUBSET Threads) \ { {} } :
        \E t \in S : \A u \in S : ~ Holds(u, WaitsFor(t))

\* a robot thread locks the log last, inside the map and the robot list and
\* inside the registry when it holds it; the UI thread locks the robot list,
\* then the log, and never the map
Nesting ==
    /\ \A i \in Agents :
          Holds(i, "logs") =>
            held[i] \in { << "map", "robots", "logs" >>, << "map", "robots", "rep", "logs" >> }
    /\ held[UI] \in { << >>, << "robots" >>, << "robots", "logs" >> }

\* thread t takes a step of its own
Moves(t) == IF t = UI THEN ui' # ui ELSE pc'[t] # pc[t] \/ task'[t] # task[t]

\* C20: no set of threads ever waits in a circle for the four mutexes, a
\* thread never asks for a mutex it holds, and a thread that asks for a mutex
\* gets it: its only step from there is the one that takes the mutex, and it
\* is always again at a point where it asks for none.
C20_DeadlockFree ==
    /\ [](Nesting /\ NoWaitCycle)
    /\ [][\A t \in Threads :
            WaitsFor(t) # "none" =>
              /\ ~ Holds(t, WaitsFor(t))
              /\ Moves(t) => \E k \in 1 .. Len(held'[t]) : held'[t][k] = WaitsFor(t)]_vars
    /\ \A t \in Threads : []<>(WaitsFor(t) = "none")

\* a robot thread holds the log nested in the registry, with the map and the
\* robot list, while the UI thread waits for the robot list
C20_NestedWhileUiWaits ==
    /\ ui.pc = "lock_robots"
    /\ \E i \in Agents : held[i] = << "map", "robots", "rep", "logs" >>

\* C13: once running is cleared every robot thread and the UI thread end; a
\* robot thread that reads the flag cleared at the top of its loop ends
\* there and stays ended; a robot thread ends nowhere else, so a tick in
\* progress runs to its end first, and it ends holding no guard.
C13_CooperativeShutdown ==
    /\ ~ running ~> Stopped
    /\ [][\A i \in Agents :
            /\ pc[i] = "loop" /\ ~ running /\ pc'[i] # "loop" => pc'[i] = "done"
            /\ pc[i] = "done" => pc'[i] = "done"
            /\ pc'[i] = "done" => pc[i] \in { "loop", "done" } /\ held'[i] = << >>]_vars

\* the flag is cleared, one robot thread has ended and another is still in
\* the middle of its tick
C13_EndedWhileTicking ==
    /\ ~ running
    /\ \E i, j \in Agents :
          pc[i] = "done" /\ pc[j] = "task" /\ task[j].pc \notin { "start", "ret" }

----------------------------------------------------------------------------
(* Claims checked under SpecLog *)

\* the last MAX_LOGS elements of s, all of s when it has no more
Recent(s) ==
    IF Len(s) <= MAX_LOGS THEN s ELSE SubSeq(s, Len(s) - MAX_LOGS + 1, Len(s))

\* C16: the log holds at most MAX_LOGS lines, and they are the most recent
\* lines pushed, in the order of the pushes.
C16_LogKeepsMostRecent ==
    /\ Len(logs) <= MAX_LOGS
    /\ logs = Recent(appended)

\* lines were evicted, and the oldest line kept differs from the first pushed
C16_OldestEvicted ==
    /\ Len(appended) >= MAX_LOGS + 2
    /\ logs[1] # appended[1]

====
